---- MODULE Spec2Model ----
(***************************************************************************)
(* Model of the Pyrevolut client library (src/pyrevolut.py,                *)
(* src/pyrevolut/utils.py): the Client with its header sets, the request   *)
(* executor Client._request, the Order and Webhook handles, the major to   *)
(* minor unit conversion Client._to_minor_units and the webhook signature  *)
(* verifier is_valide_webhook.                                             *)
(*                                                                         *)
(* Python values are tagged records ([py |-> "str", v |-> ...]) so that a  *)
(* None, a str, a list and a dict can be compared with one another the way *)
(* Python's == compares them.                                              *)
(***************************************************************************)
EXTENDS Integers, Sequences, FiniteSets, TLC

VARIABLES
    ctor,            \* the arguments Client.__init__ was called with
    url,             \* Client.url
    POST_HEADERS,    \* Client.POST_HEADERS
    GET_HEADERS,     \* Client.GET_HEADERS
    DELETE_HEADERS,  \* Client.DELETE_HEADERS
    remote,          \* the remote API's state of the order (not held locally)
    orders,          \* the Order handles constructed so far (each holds an id)
    webhooks,        \* the Webhook handles constructed so far
    constructed,     \* history: the fields each Webhook handle was constructed with
    deleted,         \* history: the handles Webhook.delete() was called on
    call,            \* the invocation in progress or last finished
    units,           \* an evaluation of Client._to_minor_units
    hook             \* an evaluation of is_valide_webhook

vars == <<ctor, url, POST_HEADERS, GET_HEADERS, DELETE_HEADERS, remote, orders,
          webhooks, constructed, deleted, call, units, hook>>

clientVars == <<ctor, url, POST_HEADERS, GET_HEADERS, DELETE_HEADERS>>

-----------------------------------------------------------------------------
(* Python values *)

None == [py |-> "None"]
PyStr(s) == [py |-> "str", v |-> s]
PyBool(b) == [py |-> "bool", v |-> b]
PyList(s) == [py |-> "list", v |-> s]
PyDict(f) == [py |-> "dict", v |-> f]

\* dict.get(key, default)
DictGet(d, key, default) == IF key \in DOMAIN d.v THEN d.v[key] ELSE default

-----------------------------------------------------------------------------
(* decimal.Decimal and int, digit by digit.  A number is a sign, a         *)
(* coefficient (a sequence of decimal digits, most significant first,      *)
(* without leading zeros unless it is the single digit 0) and an exponent: *)
(* its value is (-1)^sign * coeff * 10^exp.  An int has exponent 0.        *)

\* The significant digits of decimal's default context (getcontext().prec),
\* under which line 190 multiplies.
Prec == 28

Rep(d, n) == [i \in 1..n |-> d]

IsZero(c) == \A i \in 1..Len(c) : c[i] = 0

RECURSIVE StripZeros(_)
StripZeros(c) ==
    IF Len(c) > 1 /\ c[1] = 0 THEN StripZeros(Tail(c)) ELSE c

\* str(int(coeff) + 1) on a coefficient
RECURSIVE Increment(_)
Increment(c) ==
    IF Len(c) = 0 THEN <<1>>
    ELSE IF c[Len(c)] < 9 THEN [c EXCEPT ![Len(c)] = @ + 1]
    ELSE Append(Increment(SubSeq(c, 1, Len(c) - 1)), 0)

\* Decimal._round_half_even(prec): 1 to round the kept digits up, else not
RoundHalfEven(c, prec) ==
    LET rest == SubSeq(c, prec + 1, Len(c))
        exactHalf == rest[1] = 5 /\ IsZero(Tail(rest))
    IN  IF exactHalf /\ (prec = 0 \/ c[prec] % 2 = 0) THEN -1
        ELSE IF rest[1] >= 5 THEN 1
        ELSE IF IsZero(rest) THEN 0
        ELSE -1

\* Decimal._fix(context): round a result to the context's precision
Fix(d) ==
    IF IsZero(d.coeff) \/ Len(d.coeff) <= Prec THEN d
    ELSE LET kept == SubSeq(d.coeff, 1, Prec)
             up == RoundHalfEven(d.coeff, Prec) > 0
             c1 == IF up THEN Increment(kept) ELSE kept
             over == Len(c1) > Prec
         IN  [d EXCEPT !.coeff = IF over THEN SubSeq(c1, 1, Len(c1) - 1) ELSE c1,
                       !.exp = d.exp + (Len(d.coeff) - Prec) + (IF over THEN 1 ELSE 0)]

\* multiplier * amount for multiplier = 10 ** exponent (an int): int.__mul__ is
\* exact, Decimal.__rmul__ multiplies the coefficients and rounds with _fix.
MulPow10(exponent, amount) ==
    LET c == IF IsZero(amount.coeff) THEN <<0>>
             ELSE amount.coeff \o Rep(0, exponent)
        product == [amount EXCEPT !.coeff = c]
    IN  IF amount.kind = "int" THEN product ELSE Fix(product)

MakeInt(sign, c) ==
    [kind |-> "int", sign |-> IF IsZero(c) THEN 0 ELSE sign,
     coeff |-> StripZeros(c), exp |-> 0]

\* the digits of d in front of the decimal point: self._int[:self._exp] or '0'
IntegerDigits(d) ==
    IF d.exp >= 0 THEN d.coeff \o Rep(0, d.exp)
    ELSE IF Len(d.coeff) + d.exp <= 0 THEN <<0>>
    ELSE SubSeq(d.coeff, 1, Len(d.coeff) + d.exp)

\* a conversion that rounds to the nearest integer instead (round(), quantize)
ToIntRoundsNearest(d) ==
    LET cut == Len(d.coeff) + d.exp
        up == d.exp < 0 /\ cut >= 0 /\ d.coeff[cut + 1] >= 5
    IN  MakeInt(d.sign, IF up THEN Increment(IntegerDigits(d)) ELSE IntegerDigits(d))

\* int(x): Decimal.__int__ drops the digits behind the decimal point
ToInt(d) == MakeInt(d.sign, IntegerDigits(d))

\* str(i) of an int: an optional "-" and the decimal digits
DigitChars == <<"0", "1", "2", "3", "4", "5", "6", "7", "8", "9">>
IntStr(i) ==
    (IF i.sign = 1 THEN <<"-">> ELSE <<>>) \o
    [k \in 1..Len(i.coeff) |-> DigitChars[i.coeff[k] + 1]]

\* Client._to_minor_units(amount, currency)
_to_minor_units(amount, currency) ==
    ToInt(MulPow10(currency.exponent, amount))

-----------------------------------------------------------------------------
(* Client.__init__ *)

REVOLUT_PRODUCTION_URL == "https://merchant.revolut.com"
REVOLUT_SANDBOX_URL == "https://sandbox-merchant.revolut.com"
REVOLUT_API_VERSION == "2024-09-01"

AUTHORIZATION == "Authorization"

BaseUrl(sandbox) ==
    IF sandbox THEN REVOLUT_SANDBOX_URL ELSE REVOLUT_PRODUCTION_URL

\* f'Bearer {secret_key}'
Bearer(secret_key) == <<"Bearer ", secret_key>>

PostHeaders(secret_key) ==
    ("Content-Type" :> <<"application/json">>) @@
    ("Accept" :> <<"application/json">>) @@
    ("Revolut-Api-Version" :> <<REVOLUT_API_VERSION>>) @@
    (AUTHORIZATION :> Bearer(secret_key))

DeleteHeaders(post) == (AUTHORIZATION :> post[AUTHORIZATION])

\* a copy that keeps the Content-Type key
GetHeadersKeepsContentType(post) == post

\* POST_HEADERS.copy() followed by del ['Content-Type']
GetHeaders(post) == [h \in DOMAIN post \ {"Content-Type"} |-> post[h]]

SecretKeys == {"your_secret_sandbox_key"}

ClientInit ==
    /\ ctor \in [secret_key : SecretKeys, sandbox : BOOLEAN]
    /\ url = BaseUrl(ctor.sandbox)
    /\ POST_HEADERS = PostHeaders(ctor.secret_key)
    /\ DELETE_HEADERS = DeleteHeaders(POST_HEADERS)
    /\ GET_HEADERS = GetHeaders(POST_HEADERS)

-----------------------------------------------------------------------------
(* The remote API: what requests.request can come back with *)

OrderStates == {"pending", "completed"}
Statuses == {200, 400}

OrderObject(id, state) == PyDict(("id" :> PyStr(id)) @@ ("state" :> PyStr(state)))

WebhookObject ==
    PyDict(("id" :> PyStr("wh1")) @@ ("url" :> PyStr("https://example.com/webhook")) @@
           ("events" :> PyList(<<PyStr("ORDER_COMPLETED")>>)) @@
           ("signing_secret" :> PyStr("wsk_1")))

\* The decoded bodies the model lets the remote answer with: JSON objects with
\* and without `message`, `id` and `state`, and JSON arrays.
JsonValues ==
    { PyDict("message" :> PyStr("Invalid currency")),
      WebhookObject,
      PyList(<<WebhookObject>>) }
    \cup { OrderObject("abc", s) : s \in OrderStates }

NotJson == [json |-> FALSE]
Json(value) == [json |-> TRUE, data |-> value]

Responses ==
    [kind : {"response"}, status_code : Statuses,
     body : {NotJson} \cup { Json(j) : j \in JsonValues }]
    \cup {[kind |-> "ConnectionError"]}

\* A GET of an order that answers with the order's representation reports the
\* state the remote holds at that moment.
OrderResponses ==
    { r \in Responses :
        (r.kind = "response" /\ r.body.json /\ r.body.data.py = "dict"
         /\ "state" \in DOMAIN r.body.data.v)
        => r.body.data.v["state"] = PyStr(remote) }

-----------------------------------------------------------------------------
(* Client._request *)

Return(value) == [kind |-> "return", value |-> value]
Raise(exc, args) == [kind |-> "raise", exc |-> exc, args |-> args]

\* RevolutAPIException.__init__: f"Revolut API error {status_code}. {message}."
RevolutAPIException(status_code, message) ==
    Raise("RevolutAPIException",
          <<"Revolut API error ", status_code, ". ", message, ".">>)

\* x.get(...) on a value that is no dict
AttributeError == Raise("AttributeError", <<"object has no attribute 'get'">>)

\* the request handed to requests.request
HttpRequest(method, path, headers, json) ==
    [method |-> method, url |-> <<url>> \o path, headers |-> headers, json |-> json]

\* requests.request is called once with the request
TransmitWithRetry(sent, request) == sent \o <<request, request>>

Transmit(sent, request) == Append(sent, request)

\* a variant that looks at the status code before it decodes the body
_request_status_first(response) ==
    IF response.kind # "response" THEN Raise(response.kind, <<>>)
    ELSE IF response.status_code >= 400
    THEN IF response.body.json /\ response.body.data.py = "dict"
         THEN RevolutAPIException(response.status_code,
                  DictGet(response.body.data, "message", PyStr("Unknown")))
         ELSE RevolutAPIException(response.status_code, PyStr("Unknown"))
    ELSE IF ~response.body.json
    THEN Raise("Exception", <<"Failed to decode JSON response.">>)
    ELSE Return(response.body.data)

\* What Client._request does with the response of requests.request: a transport
\* failure propagates; the body is decoded; then the status code is inspected.
_request(response) ==
    IF response.kind # "response" THEN Raise(response.kind, <<>>)
    ELSE IF ~response.body.json
    THEN Raise("Exception", <<"Failed to decode JSON response.">>)
    ELSE IF response.status_code >= 400
    THEN IF response.body.data.py = "dict"
         THEN RevolutAPIException(response.status_code,
                  DictGet(response.body.data, "message", PyStr("Unknown")))
         ELSE AttributeError
    ELSE Return(response.body.data)

-----------------------------------------------------------------------------
(* The handles *)

\* Client.Order.__init__: data['id']
OrderInit(data) ==
    IF data.py = "dict"
    THEN IF "id" \in DOMAIN data.v THEN Return([id |-> data.v["id"]])
         ELSE Raise("KeyError", <<"id">>)
    ELSE Raise("TypeError", <<"indices must be integers">>)

\* Client.Webhook.__init__: data.get(...) for each field
WebhookInit(data) ==
    IF data.py = "dict"
    THEN Return([id |-> DictGet(data, "id", None),
                 url |-> DictGet(data, "url", None),
                 events |-> DictGet(data, "events", None),
                 signing_secret |-> DictGet(data, "signing_secret", None)])
    ELSE AttributeError

\* `for response in data`: the items of a list, the keys of a dict
Items(data) ==
    IF data.py = "list" THEN data.v
    ELSE IF DOMAIN data.v = {} THEN <<>>
    ELSE <<PyStr(CHOOSE k \in DOMAIN data.v : TRUE)>>

\* a list comprehension over constructions: the list of what was made, or
\* what the first failing construction raises
Collect(made) ==
    LET bad == { i \in 1..Len(made) : made[i].kind = "raise" }
    IN  IF bad = {} THEN Return([i \in 1..Len(made) |-> made[i].value])
        ELSE made[CHOOSE i \in bad : \A j \in bad : i <= j]

\* [Client.Order(self, response) for response in data]
OrderList(data) ==
    Collect([i \in 1..Len(Items(data)) |-> OrderInit(Items(data)[i])])

\* [Client.Webhook(self, response) for response in data]
WebhookList(data) ==
    Collect([i \in 1..Len(Items(data)) |-> WebhookInit(Items(data)[i])])

\* f'{value}'
Format(value) == IF value = None THEN "None" ELSE value.v

\* state == 'pending' (line 80), negated by mistake into a test for 'completed'
CanCancelUnlessCompleted(state) == state # PyStr("completed")

CanCancel(state) == state = PyStr("pending")

\* the PUT body with the events dropped instead of re-sent
UpdatePayloadWithoutEvents(webhook, new_url) ==
    PyDict(("url" :> PyStr(new_url)) @@ ("events" :> PyList(<<>>)))

\* Webhook.update's payload: the new url and the handle's own events
UpdatePayload(webhook, new_url) ==
    PyDict(("url" :> PyStr(new_url)) @@ ("events" :> webhook.events))

-----------------------------------------------------------------------------
(* Invocations.  `call` is the invocation in progress or last finished: the  *)
(* operation, its target handle, the requests it handed to requests.request, *)
(* the responses it got, the remote order state at each request and its      *)
(* outcome (running, return or raise).                                       *)

Running == [kind |-> "running"]

NoCall ==
    [op |-> "none", target |-> None, arg |-> None, sent |-> <<>>,
     received |-> <<>>, at |-> <<>>, outcome |-> [kind |-> "none"]]

Idle == call.outcome.kind # "running"

\* One request of an invocation: it is transmitted, and the response recorded.
Invocation(op, target, arg, request, response, outcome) ==
    [op |-> op, target |-> target, arg |-> arg,
     sent |-> Transmit(<<>>, request), received |-> <<response>>,
     at |-> IF op = "cancel" THEN <<remote>> ELSE <<>>, outcome |-> outcome]

MaxWebhooks == 1

Events == {"ORDER_COMPLETED", "ORDER_AUTHORISED", "ORDER_CANCELED"}
EventLists == {<<"ORDER_COMPLETED", "ORDER_CANCELED">>}
Urls == {"https://example.com/moved"}
\* iso4217.Currency: the members the model uses, with their exponents
EUR == [code |-> "EUR", exponent |-> 2]
JPY == [code |-> "JPY", exponent |-> 0]
KWD == [code |-> "KWD", exponent |-> 3]
Currencies == {EUR, JPY, KWD}

\* Client.create_order
create_order(amount, currency, redirect_url, response) ==
    LET payload == PyDict(("amount" :> PyStr(IntStr(_to_minor_units(amount, currency)))) @@
                          ("currency" :> PyStr(currency.code)) @@
                          ("redirect_url" :> PyStr(redirect_url)))
        data == _request(response)
        order == IF data.kind = "raise" THEN data ELSE OrderInit(data.value)
    IN  /\ Idle
        /\ call' = Invocation("create_order", None, [amount |-> amount, currency |-> currency],
                       HttpRequest("POST", <<"/api/orders">>, POST_HEADERS, payload),
                       response, order)
        /\ orders' = IF order.kind = "return" THEN orders \cup {order.value} ELSE orders
        /\ UNCHANGED <<clientVars, remote, webhooks, constructed, deleted, units, hook>>

\* Client.retrieve_orders
retrieve_orders(response) ==
    LET data == _request(response)
        made == IF data.kind = "raise" THEN data ELSE OrderList(data.value)
    IN  /\ Idle
        /\ call' = Invocation("retrieve_orders", None, None,
                       HttpRequest("GET", <<"/api/1.0/orders">>, POST_HEADERS, None),
                       response, made)
        /\ orders' = IF made.kind = "return"
                     THEN orders \cup { made.value[i] : i \in 1..Len(made.value) }
                     ELSE orders
        /\ UNCHANGED <<clientVars, remote, webhooks, constructed, deleted, units, hook>>

\* Client.Order.retrieve
retrieve(order, response) ==
    /\ Idle
    /\ call' = Invocation("retrieve", order, None,
                   HttpRequest("GET", <<"/api/orders/", Format(order.id)>>, GET_HEADERS, None),
                   response, _request(response))
    /\ UNCHANGED <<clientVars, remote, orders, webhooks, constructed, deleted, units, hook>>

\* Client.Order.cancel up to line 80: self.retrieve(), data.get('state') and the
\* test of the state.  The invocation stays running when the cancel POST is next.
cancel_retrieve(order, response) ==
    LET data == _request(response)
        state == DictGet(data.value, "state", None)
        outcome == IF data.kind = "raise" THEN data
                   ELSE IF data.value.py # "dict" THEN AttributeError
                   ELSE IF CanCancel(state) THEN Running
                   ELSE Return(PyBool(FALSE))
    IN  /\ Idle
        /\ call' = Invocation("cancel", order, None,
                       HttpRequest("GET", <<"/api/orders/", Format(order.id)>>, GET_HEADERS, None),
                       response, outcome)
        /\ UNCHANGED <<clientVars, remote, orders, webhooks, constructed, deleted, units, hook>>

\* Client.Order.cancel, lines 82 to 84: the cancel POST and `return True`
cancel_post(response) ==
    LET data == _request(response)
        request == HttpRequest("POST", <<"/api/orders/", Format(call.target.id), "/cancel">>,
                               POST_HEADERS, None)
    IN  /\ call.op = "cancel"
        /\ call.outcome = Running
        /\ call' = [call EXCEPT !.sent = Transmit(@, request),
                                !.received = Append(@, response),
                                !.at = Append(@, remote),
                                !.outcome = IF data.kind = "raise" THEN data
                                            ELSE Return(PyBool(TRUE))]
        /\ UNCHANGED <<clientVars, remote, orders, webhooks, constructed, deleted, units, hook>>

\* Client.create_webhook
create_webhook(new_url, events, response) ==
    LET payload == PyDict(("url" :> PyStr(new_url)) @@
                          ("events" :> PyList([i \in 1..Len(events) |-> PyStr(events[i])])))
        data == _request(response)
        made == IF data.kind = "raise" THEN data ELSE WebhookInit(data.value)
    IN  /\ Idle
        /\ made.kind = "return" => Len(webhooks) < MaxWebhooks
        /\ call' = Invocation("create_webhook", None, None,
                       HttpRequest("POST", <<"/api/1.0/webhooks">>, POST_HEADERS, payload),
                       response, made)
        /\ webhooks' = IF made.kind = "return" THEN Append(webhooks, made.value) ELSE webhooks
        /\ constructed' = IF made.kind = "return" THEN Append(constructed, made.value)
                          ELSE constructed
        /\ UNCHANGED <<clientVars, remote, orders, deleted, units, hook>>

\* Client.retrieve_webhooks
retrieve_webhooks(response) ==
    LET data == _request(response)
        made == IF data.kind = "raise" THEN data ELSE WebhookList(data.value)
    IN  /\ Idle
        /\ made.kind = "return" => Len(webhooks) + Len(made.value) <= MaxWebhooks
        /\ call' = Invocation("retrieve_webhooks", None, None,
                       HttpRequest("GET", <<"/api/1.0/webhooks">>, GET_HEADERS, None),
                       response, made)
        /\ webhooks' = IF made.kind = "return" THEN webhooks \o made.value ELSE webhooks
        /\ constructed' = IF made.kind = "return" THEN constructed \o made.value
                          ELSE constructed
        /\ UNCHANGED <<clientVars, remote, orders, deleted, units, hook>>

\* Client.Webhook.update
update(w, new_url, response) ==
    LET data == _request(response)
    IN  /\ Idle
        /\ call' = Invocation("update", w, PyStr(new_url),
                       HttpRequest("PUT", <<"/api/1.0/webhooks/", Format(webhooks[w].id)>>,
                                   POST_HEADERS, UpdatePayload(webhooks[w], new_url)),
                       response,
                       IF data.kind = "raise" THEN data ELSE Return(None))
        /\ UNCHANGED <<clientVars, remote, orders, webhooks, constructed, deleted, units, hook>>

\* Client.Webhook.delete
delete(w, response) ==
    LET data == _request(response)
    IN  /\ Idle
        /\ call' = Invocation("delete", w, None,
                       HttpRequest("DELETE", <<"/api/1.0/webhooks/", Format(webhooks[w].id)>>,
                                   POST_HEADERS, None),
                       response,
                       IF data.kind = "raise" THEN data ELSE Return(None))
        /\ deleted' = deleted \cup {w}
        /\ UNCHANGED <<clientVars, remote, orders, webhooks, constructed, units, hook>>

\* Another actor of the remote API moves the order to another state.
RemoteActor(state) ==
    /\ state # remote
    /\ remote' = state
    /\ UNCHANGED <<clientVars, orders, webhooks, constructed, deleted, call, units, hook>>

-----------------------------------------------------------------------------
(* The client: construction, then any sequence of its operations *)

Fifty == [kind |-> "int", sign |-> 0, coeff |-> <<5, 0>>, exp |-> 0]
TenPoint556 == [kind |-> "Decimal", sign |-> 0, coeff |-> <<1, 0, 5, 5, 6>>, exp |-> -3]

NoUnits == [amount |-> Fifty, currency |-> EUR, result |-> None]
NoHook == [secret |-> None, body |-> None, signature |-> None, outcome |-> [kind |-> "none"]]

Init ==
    /\ ClientInit
    /\ remote \in OrderStates
    /\ orders = {}
    /\ webhooks = <<>>
    /\ constructed = <<>>
    /\ deleted = {}
    /\ call = NoCall
    /\ units = NoUnits
    /\ hook = NoHook

Next ==
    \/ \E response \in Responses :
          create_order(Fifty, EUR, "https://google.com", response)
    \/ \E response \in Responses : retrieve_orders(response)
    \/ \E order \in orders, response \in OrderResponses : retrieve(order, response)
    \/ \E order \in orders, response \in OrderResponses : cancel_retrieve(order, response)
    \/ \E response \in Responses : cancel_post(response)
    \/ \E new_url \in Urls, events \in EventLists, response \in Responses :
          create_webhook(new_url, events, response)
    \/ \E response \in Responses : retrieve_webhooks(response)
    \/ \E w \in 1..Len(webhooks), new_url \in Urls, response \in Responses :
          update(w, new_url, response)
    \/ \E w \in 1..Len(webhooks), response \in Responses : delete(w, response)
    \/ \E state \in OrderStates : RemoteActor(state)

Spec == Init /\ [][Next]_vars

-----------------------------------------------------------------------------
(* Client._to_minor_units on its own: the amounts and currencies it is given *)

MaxDigits == 30
MaxFrac == 4
MaxMixed == 4

\* coefficients of one repeated digit, up to MaxDigits long, and every
\* coefficient of up to MaxMixed digits over 0, 5 and 9
Coefficients ==
    { Rep(d, n) : d \in {1, 5, 9}, n \in 1..MaxDigits }
    \cup { c \in UNION { [1..n -> {0, 5, 9}] : n \in 1..MaxMixed } : c[1] # 0 }
    \cup { <<0>> }

Amounts ==
    [kind : {"Decimal"}, sign : {0, 1}, coeff : Coefficients, exp : { -k : k \in 0..MaxFrac }]
    \cup [kind : {"int"}, sign : {0, 1}, coeff : Coefficients, exp : {0}]
    \cup { TenPoint556, Fifty }

InitUnits ==
    /\ ClientInit
    /\ ctor.sandbox
    /\ remote = "pending"
    /\ orders = {}
    /\ webhooks = <<>>
    /\ constructed = <<>>
    /\ deleted = {}
    /\ call = NoCall
    /\ units \in [amount : Amounts, currency : Currencies, result : {None}]
    /\ hook = NoHook

\* an evaluation of self._to_minor_units(amount, currency)
UnitsEval ==
    /\ units.result = None
    /\ units' = [units EXCEPT !.result = _to_minor_units(units.amount, units.currency)]
    /\ UNCHANGED <<clientVars, remote, orders, webhooks, constructed, deleted, call, hook>>

UnitsResponses ==
    { [kind |-> "response", status_code |-> 200, body |-> Json(OrderObject("abc", "pending"))],
      [kind |-> "response", status_code |-> 400,
       body |-> Json(PyDict("message" :> PyStr("Invalid currency")))] }

NextUnits ==
    \/ UnitsEval
    \/ \E response \in UnitsResponses :
          create_order(units.amount, units.currency, "https://google.com", response)

SpecUnits == InitUnits /\ [][NextUnits]_vars

-----------------------------------------------------------------------------
(* is_valide_webhook (src/pyrevolut/utils.py) *)

PyBytes(b) == [py |-> "bytes", v |-> b]

\* HMAC-SHA256 as an ideal keyed digest: distinct (key, message) pairs have
\* distinct digests.
HexDigest(key, msg) == <<"hmac-sha256", key, msg>>

\* hmac.new(key, msg, hashlib.sha256): the key must be bytes
hmac_new(key, msg) ==
    IF key.py = "bytes"
    THEN Return([py |-> "HMAC", hexdigest |-> HexDigest(key.v, msg.v)])
    ELSE Raise("TypeError", <<"key: expected bytes or bytearray, but got 'str'">>)

\* what an hmac.HMAC object has; compare_digest is a function of the module
HMACAttributes ==
    {"update", "copy", "digest", "hexdigest", "digest_size", "block_size", "name"}

is_valide_webhook(secret, body, signature) ==
    LET hmac_hash == hmac_new(secret, body)
    IN  IF hmac_hash.kind = "raise" THEN hmac_hash
        ELSE IF "compare_digest" \in HMACAttributes
        THEN Return(PyBool(signature = PyStr(hmac_hash.value.hexdigest)))
        ELSE Raise("AttributeError", <<"'HMAC' object has no attribute 'compare_digest'">>)

HookKeys == {"wsk_1", "wsk_2"}
HookBodies == {"{}", "{\"event\": \"ORDER_COMPLETED\"}", "{\"event\": \"ORDER_CANCELED\"}"}
HookSignatures ==
    { PyStr(HexDigest(k, b)) : k \in HookKeys, b \in HookBodies }
    \cup { PyStr(<<"hmac-sha256">>), PyStr(<<>>) }

InitHook ==
    /\ ClientInit
    /\ remote = "pending"
    /\ orders = {}
    /\ webhooks = <<>>
    /\ constructed = <<>>
    /\ deleted = {}
    /\ call = NoCall
    /\ units = NoUnits
    /\ hook \in [secret : { PyBytes(k) : k \in HookKeys } \cup { PyStr(k) : k \in HookKeys },
                 body : { PyBytes(b) : b \in HookBodies },
                 signature : HookSignatures,
                 outcome : {[kind |-> "none"]}]

Verify ==
    /\ hook.outcome.kind = "none"
    /\ hook' = [hook EXCEPT !.outcome = is_valide_webhook(hook.secret, hook.body, hook.signature)]
    /\ UNCHANGED <<clientVars, remote, orders, webhooks, constructed, deleted, call, units>>

NextHook == Verify

SpecHook == InitHook /\ [][NextHook]_vars

-----------------------------------------------------------------------------
(* Properties *)

LastResponse == call.received[Len(call.received)]
Decodable(r) == r.kind = "response" /\ r.body.json
Accepted(r) == Decodable(r) /\ r.status_code < 400
DecodeError == Raise("Exception", <<"Failed to decode JSON response.">>)
True == PyBool(TRUE)
False == PyBool(FALSE)

\* cancel()'s retrieve came back with an order representation (a JSON object)
RetrievedOrder == Accepted(call.received[1]) /\ call.received[1].body.data.py = "dict"
\* the state it reported, None when the field is missing
RetrievedState == DictGet(call.received[1].body.data, "state", None)
OrderPath(id) == <<url, "/api/orders/", Format(id)>>
CancelPath(id) == <<url, "/api/orders/", Format(id), "/cancel">>

\* C1: Order.cancel() first issues one GET /api/orders/{id}.  If the state it
\* retrieved is "pending" it then issues exactly one POST /api/orders/{id}/cancel,
\* never returns false, and returns true once that POST is accepted; for any other
\* state, a missing state field included, it issues no POST and returns false.
C1_CancelOnlyWhenPending ==
    call.op = "cancel" =>
        /\ call.sent[1].method = "GET"
        /\ call.sent[1].url = OrderPath(call.target.id)
        /\ RetrievedOrder =>
              IF RetrievedState = PyStr("pending")
              THEN \/ call.outcome = Running /\ Len(call.sent) = 1
                   \/ /\ Len(call.sent) = 2
                      /\ call.sent[2].method = "POST"
                      /\ call.sent[2].url = CancelPath(call.target.id)
                      /\ call.outcome # Return(False)
                      /\ Accepted(call.received[2]) => call.outcome = Return(True)
              ELSE Len(call.sent) = 1 /\ call.outcome = Return(False)

\* C1 witness: a cancel() that retrieved "pending", sent the cancel POST and
\* returned true
C1_Witness ==
    /\ call.op = "cancel"
    /\ RetrievedOrder /\ RetrievedState = PyStr("pending")
    /\ Len(call.sent) = 2
    /\ call.outcome = Return(True)

MessageOrUnknown(data) ==
    IF data.py = "dict" /\ "message" \in DOMAIN data.v THEN data.v["message"]
    ELSE PyStr("Unknown")

\* C2 (as claimed): every response whose body decodes as JSON, object or array,
\* and whose status is >= 400 makes the request raise the API error with that
\* status and the body's `message` or "Unknown"; every decodable response below
\* 400 is returned unchanged (seen through Order.retrieve, which returns what
\* _request returns).
C2_DecodableErrorIsAPIError ==
    (call.op # "none" /\ Decodable(LastResponse)) =>
        IF LastResponse.status_code >= 400
        THEN call.outcome = RevolutAPIException(LastResponse.status_code,
                                MessageOrUnknown(LastResponse.body.data))
        ELSE call.op = "retrieve" => call.outcome = Return(LastResponse.body.data)

\* C3: whatever the status, a response whose body is not valid JSON raises the
\* generic decode error with its static message, never the API error.
C3_DecodeBeforeStatus ==
    (call.op # "none" /\ LastResponse.kind = "response" /\ ~LastResponse.body.json) =>
        /\ call.outcome = DecodeError
        /\ call.outcome.exc # "RevolutAPIException"

\* C3 witness: a body that is not JSON came with status 400 and the decode error
\* was raised
C3_Witness ==
    /\ call.op # "none"
    /\ LastResponse.kind = "response" /\ ~LastResponse.body.json
    /\ LastResponse.status_code >= 400
    /\ call.outcome = DecodeError

\* C4: after construction and any sequence of operations GET_HEADERS has no
\* Content-Type, POST_HEADERS has one, DELETE_HEADERS holds Authorization only,
\* and the base url and the three header sets are what __init__ made of its
\* arguments.
C4_HeadersFixed ==
    /\ "Content-Type" \notin DOMAIN GET_HEADERS
    /\ "Content-Type" \in DOMAIN POST_HEADERS
    /\ DOMAIN DELETE_HEADERS = {"Authorization"}
    /\ url = IF ctor.sandbox THEN "https://sandbox-merchant.revolut.com"
             ELSE "https://merchant.revolut.com"
    /\ POST_HEADERS = ("Content-Type" :> <<"application/json">>) @@
                      ("Accept" :> <<"application/json">>) @@
                      ("Revolut-Api-Version" :> <<"2024-09-01">>) @@
                      ("Authorization" :> <<"Bearer ", ctor.secret_key>>)
    /\ GET_HEADERS = ("Accept" :> <<"application/json">>) @@
                     ("Revolut-Api-Version" :> <<"2024-09-01">>) @@
                     ("Authorization" :> <<"Bearer ", ctor.secret_key>>)
    /\ DELETE_HEADERS = ("Authorization" :> <<"Bearer ", ctor.secret_key>>)

\* C4 witness: orders and a webhook have been made, the webhook deleted, and the
\* last operation failed
C4_Witness ==
    /\ orders # {}
    /\ deleted # {}
    /\ call.outcome.kind = "raise"

\* the exact product amount * 10^exponent with the digits behind the decimal
\* point discarded
Truncated(amount, exponent) ==
    LET shift == amount.exp + exponent
        c == IF shift >= 0 THEN amount.coeff \o Rep(0, shift)
             ELSE IF Len(amount.coeff) + shift <= 0 THEN <<0>>
             ELSE SubSeq(amount.coeff, 1, Len(amount.coeff) + shift)
    IN  [kind |-> "int", sign |-> IF IsZero(c) THEN 0 ELSE amount.sign,
         coeff |-> StripZeros(c), exp |-> 0]

Exact(amount) == amount.kind = "int" \/ Len(amount.coeff) <= 28

C6_VerifierDecides ==
    hook.outcome.kind # "none" =>
        hook.outcome =
            Return(PyBool(hook.signature = PyStr(<<"hmac-sha256", hook.secret.v, hook.body.v>>)))

\* C7 (as claimed): every public operation issues at most one HTTP call per
\* invocation.
C7_AtMostOneCall == Len(call.sent) <= 1

\* C7 (amended): every public operation other than Order.cancel issues at most
\* one HTTP call per invocation; Order.cancel issues its GET and then at most
\* one cancel POST, two calls at most.
C7_AtMostOneCallButCancel ==
    /\ call.op # "cancel" => Len(call.sent) <= 1
    /\ call.op = "cancel" =>
          /\ Len(call.sent) <= 2
          /\ Len(call.sent) = 2 => (call.sent[1].method = "GET" /\ call.sent[2].method = "POST")

\* C7 witness: a cancel() that issued two calls
C7_Witness == call.op = "cancel" /\ Len(call.sent) = 2

\* C8 (as claimed): every GET goes out without Content-Type, every POST and PUT
\* with the GET headers plus Content-Type, the DELETE with Authorization only.
C8_HeadersFollowMethod ==
    \A i \in 1..Len(call.sent) :
        LET request == call.sent[i]
        IN  /\ request.method = "GET" => "Content-Type" \notin DOMAIN request.headers
            /\ request.method \in {"POST", "PUT"} =>
                  request.headers = GET_HEADERS @@ ("Content-Type" :> <<"application/json">>)
            /\ request.method = "DELETE" => DOMAIN request.headers = {"Authorization"}

\* the cancel POST was answered with a status >= 400 and a body that decodes
Rejected(r) == Decodable(r) /\ r.status_code >= 400

\* C9 (as claimed): cancel() returns true only if its retrieve saw "pending" and
\* its cancel POST completed below 400; a rejected cancel POST surfaces as the
\* API error, never as a return; a failed retrieve propagates its error and no
\* cancel POST is issued.
C9_BestEffortCancel ==
    call.op = "cancel" =>
        /\ call.outcome = Return(True) =>
              /\ RetrievedOrder /\ RetrievedState = PyStr("pending")
              /\ Len(call.sent) = 2
              /\ Accepted(call.received[2])
        /\ (Len(call.sent) = 2 /\ Rejected(call.received[2])) =>
              /\ call.outcome.kind = "raise"
              /\ call.outcome.exc = "RevolutAPIException"
        /\ ~Accepted(call.received[1]) =>
              /\ Len(call.sent) = 1
              /\ call.outcome.kind = "raise"

\* C9 witness: the order was pending at the retrieve and no longer pending when
\* the cancel POST went out
C9_Witness ==
    /\ call.op = "cancel"
    /\ Len(call.sent) = 2
    /\ call.at[1] = "pending"
    /\ call.at[2] # "pending"

WebhookPath(id) == <<url, "/api/1.0/webhooks/", Format(id)>>

\* C10: update and delete leave every Webhook handle's id, url, events and
\* signing_secret as constructed; every update PUT carries the new url with the
\* handle's cached events; update and delete issue their request under the
\* handle's id, also on a handle delete() was called on before.
C10_WebhookHandleUnchanged ==
    /\ webhooks = constructed
    /\ call.op \in {"update", "delete"} =>
          /\ Len(call.sent) = 1
          /\ call.sent[1].url = WebhookPath(constructed[call.target].id)
    /\ call.op = "update" =>
          /\ call.sent[1].method = "PUT"
          /\ call.sent[1].json =
                PyDict(("url" :> call.arg) @@ ("events" :> constructed[call.target].events))

\* C10 witness: an update with a new url on a handle that was deleted before and
\* that subscribes to events; the handle still has its url
C10_Witness ==
    /\ call.op = "update"
    /\ call.target \in deleted
    /\ webhooks[call.target].events = PyList(<<PyStr("ORDER_COMPLETED")>>)
    /\ webhooks[call.target].url # call.arg
    /\ call.sent[1].json.v["url"] = call.arg

====
